---- MODULE Spec2Model ----
(***************************************************************************)
(* Model of myutilspkg.mysyncdir.main: the hidden-item classifier          *)
(* (_is_hidden), the copytree ignore callback (_ignore_hidden) and         *)
(* sync_dir, which validates the source, optionally stages a filtered      *)
(* copy in a tempfile.TemporaryDirectory and runs                          *)
(* dirsync.sync(action="sync", purge=True, create=True) against the        *)
(* destination.  The synchronization pass is the one of the dirsync        *)
(* library (Syncer), as the call site configures it.                       *)
(* The file system is a map from relative paths to entries;                *)
(* a path is a sequence of names and a name is a sequence of characters,   *)
(* so that str.startswith('.') is computed on the name itself.             *)
(***************************************************************************)
EXTENDS Integers, Sequences, FiniteSets, TLC

\* ---------------------------------------------------------------- bounds
MaxContent == 2     \* file contents are 1..MaxContent
MaxTime == 2        \* destination modification times are 0..MaxTime
SrcContent == 1     \* content of every source file
SrcTime == 1        \* modification time of every source file
MaxAttr == 3        \* attribute bitsets returned by the query are 0..MaxAttr

\* ------------------------------------------------------- names and paths
NameB == <<"b">>
NameC == <<"c">>
NameD == <<"d">>
NameH == <<".", "h">>

PathD == <<NameD>>
PathDB == <<NameD, NameB>>
PathH == <<NameH>>
PathHC == <<NameH, NameC>>

Paths == {PathD, PathDB, PathH, PathHC}
DirPaths == {PathD, PathH}
FilePaths == Paths \ DirPaths

BaseName(p) == p[Len(p)]

\* q is p or an ancestor directory of p
IsPrefix(q, p) == Len(q) <= Len(p) /\ SubSeq(p, 1, Len(q)) = q
Ancestors(p) == {q \in Paths : IsPrefix(q, p) /\ q # p}

\* ---------------------------------------------------------------- entries
Absent == [kind |-> "absent"]
Dir == [kind |-> "dir"]
File(c, t) == [kind |-> "file", content |-> c, mtime |-> t]

Present(tree, p) == tree[p].kind # "absent"
Entries(tree) == {p \in Paths : Present(tree, p)}
EmptyTree == [p \in Paths |-> Absent]

\* size of a file, a function of its content (contents 1 and 2 differ in size)
Size(c) == 1 + (c % 2)

WellFormed(tree) ==
    \A p \in Entries(tree) : \A q \in Ancestors(p) : tree[q].kind = "dir"

SrcOptions(p) == IF p \in DirPaths THEN {Absent, Dir}
                 ELSE {Absent, File(SrcContent, SrcTime)}
DstOptions(p) == IF p \in DirPaths THEN {Absent, Dir}
                 ELSE {Absent} \cup {File(c, t) : c \in 1..MaxContent, t \in 0..MaxTime}

SrcTrees == {t \in [Paths -> UNION {SrcOptions(p) : p \in Paths}] :
                (\A p \in Paths : t[p] \in SrcOptions(p)) /\ WellFormed(t)}
DstTrees == {t \in [Paths -> UNION {DstOptions(p) : p \in Paths}] :
                (\A p \in Paths : t[p] \in DstOptions(p)) /\ WellFormed(t)}

\* outcome of GetFileAttributesW: it raises, or returns -1 or a bitset
AttrOutcomes == {[raised |-> TRUE, value |-> 0]} \cup
                {[raised |-> FALSE, value |-> v] : v \in (-1)..MaxAttr}
NoAttrs == [p \in Paths |-> [raised |-> FALSE, value |-> 0]]

VARIABLES
    osName,          \* os.name: "posix" or "nt"
    attrs,           \* per source path, what the attribute query yields
    srcKind,         \* the source path: "absent", "file" or "dir"
    srcTree,         \* content of the source directory
    dstExists,       \* the destination directory exists
    dstTree,         \* content of the destination directory
    tmpdir,          \* the TemporaryDirectory exists on disk
    temp_src,        \* content of temp_src inside it
    pc,              \* position inside sync_dir
    exclude_hidden,  \* argument of the running call
    pending,         \* outcome carried out of the with block
    result,          \* how the last call ended
    dstAtCall,       \* destination when the call started
    tmpCreated,      \* this call created a staging directory
    syncInvoked,     \* this call invoked dirsync.sync
    entryFailed,     \* an entry operation failed during the pass
    copyFailed,      \* the filtered copy failed
    classified,      \* per source path, what _is_hidden answered in copytree
    prev             \* the previous call, when it returned: its exclude_hidden
                     \* and whether every entry was synced

vars == <<osName, attrs, srcKind, srcTree, dstExists, dstTree, tmpdir,
          temp_src, pc, exclude_hidden, pending, result, dstAtCall, tmpCreated,
          syncInvoked, entryFailed, copyFailed, classified, prev>>

fsEnv == <<osName, attrs, srcKind, srcTree>>

\* ------------------------------------------------------------ _is_hidden
FILE_ATTRIBUTE_HIDDEN == 2

StartsWithDot(name) == Len(name) > 0 /\ name[1] = "."

\* attrs & FILE_ATTRIBUTE_HIDDEN on a two's-complement integer
HiddenBit(v) == ((v % (2 * FILE_ATTRIBUTE_HIDDEN)) \div FILE_ATTRIBUTE_HIDDEN) = 1

\* the classifier without the test for the invalid-attributes value
_is_hidden_NoInvalidCheck(path) ==
    IF StartsWithDot(BaseName(path))
    THEN [res |-> "True", queried |-> FALSE]
    ELSE IF osName = "nt"
         THEN IF attrs[path].raised
              THEN [res |-> "False", queried |-> TRUE]
              ELSE [res |-> IF HiddenBit(attrs[path].value) THEN "True" ELSE "False",
                    queried |-> TRUE]
         ELSE [res |-> "False", queried |-> FALSE]

_is_hidden(path) ==
    IF StartsWithDot(BaseName(path))
    THEN [res |-> "True", queried |-> FALSE]
    ELSE IF osName = "nt"
         THEN IF attrs[path].raised
              THEN [res |-> "False", queried |-> TRUE]
              ELSE IF attrs[path].value = -1
                   THEN [res |-> "False", queried |-> TRUE]
                   ELSE [res |-> IF HiddenBit(attrs[path].value) THEN "True" ELSE "False",
                         queried |-> TRUE]
         ELSE [res |-> "False", queried |-> FALSE]

\* names: the children of dirpath; an exception of the classifier is caught
\* and the name is not ignored
_ignore_hidden(dirpath, names) ==
    {n \in names : _is_hidden(dirpath \o <<n>>).res = "True"}

\* ------------------------------------------------------- shutil.copytree
Children(tree, dirpath) ==
    {p \in Entries(tree) : Len(p) = Len(dirpath) + 1 /\ IsPrefix(dirpath, p)}
ChildNames(tree, dirpath) == {BaseName(p) : p \in Children(tree, dirpath)}

\* copytree lists a directory only when the directory itself was not ignored
Visited(tree, p) ==
    /\ Present(tree, p)
    /\ \A q \in Ancestors(p) :
          BaseName(q) \notin _ignore_hidden(SubSeq(q, 1, Len(q) - 1),
                                           ChildNames(tree, SubSeq(q, 1, Len(q) - 1)))
Included(tree, p) ==
    /\ Visited(tree, p)
    /\ BaseName(p) \notin _ignore_hidden(SubSeq(p, 1, Len(p) - 1),
                                        ChildNames(tree, SubSeq(p, 1, Len(p) - 1)))

\* fail: the entries whose copy2 / makedirs raises; copytree collects the
\* errors, goes on with the other entries and raises Error at the end
CopyTreeResult(tree, fail) ==
    [p \in Paths |->
        IF Included(tree, p) /\ \A q \in Paths : IsPrefix(q, p) => q \notin fail
        THEN tree[p] ELSE Absent]

Classification(tree) ==
    [p \in Paths |-> IF Visited(tree, p) THEN _is_hidden(p)
                     ELSE [res |-> "unvisited", queried |-> FALSE]]
NotClassified == [p \in Paths |-> [res |-> "unvisited", queried |-> FALSE]]

\* ------------------------------------------------------------ dirsync.sync
LeftOnly(s, d) == Entries(s) \ Entries(d)
RightOnly(s, d) == Entries(d) \ Entries(s)
Common(s, d) == Entries(s) \cap Entries(d)

\* _cmptimestamps: the source file is more recent than the target file
NeedsUpdate(s, d, p) ==
    /\ p \in Common(s, d)
    /\ s[p].kind = "file"
    /\ d[p].kind = "file"
    /\ s[p].mtime > d[p].mtime

\* the entries the pass operates on
Attempted(s, d) ==
    LeftOnly(s, d) \cup RightOnly(s, d) \cup {p \in Paths : NeedsUpdate(s, d, p)}

\* purge: os.remove for a file, shutil.rmtree(ignore_errors=True) for a directory
Purged(s, d, fail, p) ==
    /\ p \in RightOnly(s, d)
    /\ \A q \in RightOnly(s, d) : IsPrefix(p, q) => q \notin fail

\* os.makedirs of a directory that is only in the source raises when it fails
MakedirsRaises(s, d, fail) == {p \in LeftOnly(s, d) : s[p].kind = "dir" /\ p \in fail}

\* a directory only in the source comes to exist through its own makedirs or
\* through the makedirs that _copy does for a file inside it
DirMade(s, d, fail, done, p) ==
    /\ p \in LeftOnly(s, d)
    /\ s[p].kind = "dir"
    /\ \A q \in LeftOnly(s, d) : IsPrefix(q, p) => q \notin fail
    /\ \E q \in done : IsPrefix(p, q)

\* _copy: makedirs of the parent, then shutil.copy2
FileCopied(s, d, fail, done, p) ==
    /\ p \in LeftOnly(s, d)
    /\ s[p].kind = "file"
    /\ p \in done
    /\ \A q \in LeftOnly(s, d) : IsPrefix(q, p) => q \notin fail

\* _update: shutil.copy2 when the source is more recent
FileUpdated(s, d, fail, p) == NeedsUpdate(s, d, p) /\ p \notin fail

\* the destination after _dowork; done: the source-only entries handled before
\* a makedirs raised (all of them when none raises)
DoWork(s, d, fail, done) ==
    LET raises == MakedirsRaises(s, d, fail) # {}
    IN [p \in Paths |->
          IF p \in RightOnly(s, d)
          THEN IF Purged(s, d, fail, p) THEN Absent ELSE d[p]
          ELSE IF p \in LeftOnly(s, d)
          THEN IF DirMade(s, d, fail, done, p) \/ FileCopied(s, d, fail, done, p)
               THEN s[p] ELSE Absent
          ELSE IF ~raises /\ FileUpdated(s, d, fail, p) THEN s[p]
          ELSE d[p]]

\* sync(): Syncer.do_work creates the target (a failure is logged and the
\* pass returns), then purges, copies and updates; entry failures are
\* logged and counted, only a failing makedirs of a source-only directory
\* propagates
SyncOutcome(s, dE, d, mkfail, fail, done) ==
    IF ~dE /\ mkfail
    THEN [exists |-> FALSE, tree |-> d, failed |-> TRUE, raised |-> FALSE]
    ELSE [exists |-> TRUE,
          tree |-> DoWork(s, d, fail, done),
          failed |-> (fail \cap Attempted(s, d)) # {},
          raised |-> MakedirsRaises(s, d, fail) # {}]

SyncChoices(s, dE, d) ==
    UNION {{SyncOutcome(s, dE, d, mk, fail, done) :
                done \in IF MakedirsRaises(s, d, fail) = {}
                         THEN {LeftOnly(s, d)}
                         ELSE SUBSET (LeftOnly(s, d) \ MakedirsRaises(s, d, fail))} :
            mk \in (IF dE THEN {FALSE} ELSE BOOLEAN),
            fail \in SUBSET Attempted(s, d)}

\* ---------------------------------------------------------------- sync_dir
NoPrev == [returned |-> FALSE, exclude |-> FALSE, clean |-> FALSE]

InitRun ==
    /\ tmpdir = FALSE
    /\ temp_src = EmptyTree
    /\ pc = "idle"
    /\ exclude_hidden = FALSE
    /\ pending = "none"
    /\ result = "none"
    /\ dstAtCall = [exists |-> dstExists, tree |-> dstTree]
    /\ tmpCreated = FALSE
    /\ syncInvoked = FALSE
    /\ entryFailed = FALSE
    /\ copyFailed = FALSE
    /\ classified = NotClassified
    /\ prev = NoPrev

InitSrc ==
    /\ srcKind \in {"absent", "file", "dir"}
    /\ srcTree \in SrcTrees
    /\ srcKind # "dir" => srcTree = EmptyTree

InitDst ==
    /\ dstExists \in BOOLEAN
    /\ dstTree \in DstTrees
    /\ ~dstExists => dstTree = EmptyTree

Init ==
    /\ osName = "posix"
    /\ attrs = NoAttrs
    /\ InitSrc
    /\ InitDst
    /\ InitRun

\* both platforms; on the attribute-based one, every outcome of the attribute
\* query on the entries copytree classifies
InitPlatforms ==
    /\ osName \in {"posix", "nt"}
    /\ InitSrc
    /\ attrs \in [Paths -> AttrOutcomes]
    /\ \A p \in Paths :
          osName = "posix" \/ ~Visited(srcTree, p) \/ StartsWithDot(BaseName(p))
              => attrs[p] = NoAttrs[p]
    /\ dstExists \in BOOLEAN
    /\ dstTree = EmptyTree
    /\ InitRun

\* sync_dir without the existence check
sync_dir_NoCheck(eh) ==
    /\ pc = "idle"
    /\ exclude_hidden' = eh
    /\ dstAtCall' = [exists |-> dstExists, tree |-> dstTree]
    /\ tmpCreated' = FALSE
    /\ syncInvoked' = FALSE
    /\ entryFailed' = FALSE
    /\ copyFailed' = FALSE
    /\ classified' = NotClassified
    /\ pending' = "none"
    /\ pc' = "checked"
    /\ result' = "none"
    /\ UNCHANGED <<fsEnv, dstExists, dstTree, tmpdir, temp_src, prev>>

\* sync_dir(src, dst, exclude_hidden): resolve, then the existence check
sync_dir(eh) ==
    /\ pc = "idle"
    /\ exclude_hidden' = eh
    /\ dstAtCall' = [exists |-> dstExists, tree |-> dstTree]
    /\ tmpCreated' = FALSE
    /\ syncInvoked' = FALSE
    /\ entryFailed' = FALSE
    /\ copyFailed' = FALSE
    /\ classified' = NotClassified
    /\ pending' = "none"
    /\ IF srcKind = "absent"
       THEN pc' = "done" /\ result' = "FileNotFoundError"
       ELSE pc' = "checked" /\ result' = "none"
    /\ UNCHANGED <<fsEnv, dstExists, dstTree, tmpdir, temp_src, prev>>

\* with tempfile.TemporaryDirectory() as tmpdir
MkTemp ==
    /\ pc = "checked"
    /\ exclude_hidden
    /\ tmpdir' = TRUE
    /\ tmpCreated' = TRUE
    /\ pc' = "intmp"
    /\ UNCHANGED <<fsEnv, dstExists, dstTree, temp_src, exclude_hidden, pending,
                   result, dstAtCall, syncInvoked, entryFailed, copyFailed,
                   classified, prev>>

\* a filtered copy whose errors are dropped instead of raised
CopyTree_IgnoreErrors ==
    /\ pc = "intmp"
    /\ IF srcKind # "dir"
       THEN /\ pc' = "exiting"
            /\ pending' = (IF srcKind = "file" THEN "NotADirectoryError"
                           ELSE "FileNotFoundError")
            /\ copyFailed' = TRUE
            /\ UNCHANGED <<temp_src, classified>>
       ELSE \E fail \in SUBSET {p \in Paths : Included(srcTree, p)} :
            /\ temp_src' = CopyTreeResult(srcTree, fail)
            /\ classified' = Classification(srcTree)
            /\ copyFailed' = (fail # {})
            /\ pc' = "copied"
            /\ pending' = "none"
    /\ UNCHANGED <<fsEnv, dstExists, dstTree, tmpdir, exclude_hidden, result,
                   dstAtCall, tmpCreated, syncInvoked, entryFailed, prev>>

\* shutil.copytree(src, temp_src, ignore=_ignore_hidden)
CopyTree ==
    /\ pc = "intmp"
    /\ IF srcKind # "dir"
       THEN /\ pc' = "exiting"
            /\ pending' = (IF srcKind = "file" THEN "NotADirectoryError"
                           ELSE "FileNotFoundError")
            /\ copyFailed' = TRUE
            /\ UNCHANGED <<temp_src, classified>>
       ELSE \E fail \in SUBSET {p \in Paths : Included(srcTree, p)} :
            /\ temp_src' = CopyTreeResult(srcTree, fail)
            /\ classified' = Classification(srcTree)
            /\ copyFailed' = (fail # {})
            /\ IF fail = {}
               THEN pc' = "copied" /\ pending' = "none"
               ELSE pc' = "exiting" /\ pending' = "Error"
    /\ UNCHANGED <<fsEnv, dstExists, dstTree, tmpdir, exclude_hidden, result,
                   dstAtCall, tmpCreated, syncInvoked, entryFailed, prev>>

\* sync(sourcedir=temp_src, targetdir=dst, purge=True, create=True)
SyncStaged ==
    /\ pc = "copied"
    /\ \E o \in SyncChoices(temp_src, dstExists, dstTree) :
        /\ dstExists' = o.exists
        /\ dstTree' = o.tree
        /\ entryFailed' = o.failed
        /\ pending' = IF o.raised THEN "OSError" ELSE "returned"
    /\ syncInvoked' = TRUE
    /\ pc' = "exiting"
    /\ UNCHANGED <<fsEnv, tmpdir, temp_src, exclude_hidden, result, dstAtCall,
                   tmpCreated, copyFailed, classified, prev>>

\* a staging directory removed only when the block ends normally
TempDirExit_OnReturnOnly ==
    /\ pc = "exiting"
    /\ tmpdir' = (pending # "returned")
    /\ temp_src' = (IF pending = "returned" THEN EmptyTree ELSE temp_src)
    /\ result' = pending
    /\ pc' = "done"
    /\ UNCHANGED <<fsEnv, dstExists, dstTree, exclude_hidden, pending, dstAtCall,
                   tmpCreated, syncInvoked, entryFailed, copyFailed, classified, prev>>

\* TemporaryDirectory.__exit__: the staging directory is removed however the
\* with block is left, then the call returns or the exception goes on
TempDirExit ==
    /\ pc = "exiting"
    /\ tmpdir' = FALSE
    /\ temp_src' = EmptyTree
    /\ result' = pending
    /\ pc' = "done"
    /\ UNCHANGED <<fsEnv, dstExists, dstTree, exclude_hidden, pending, dstAtCall,
                   tmpCreated, syncInvoked, entryFailed, copyFailed, classified, prev>>

\* sync(sourcedir=src, targetdir=dst, purge=True, create=True); Syncer raises
\* ValueError when sourcedir is not a directory
SyncDirect ==
    /\ pc = "checked"
    /\ ~exclude_hidden
    /\ syncInvoked' = TRUE
    /\ pc' = "done"
    /\ IF srcKind # "dir"
       THEN /\ result' = "ValueError"
            /\ UNCHANGED <<dstExists, dstTree, entryFailed>>
       ELSE \E o \in SyncChoices(srcTree, dstExists, dstTree) :
            /\ dstExists' = o.exists
            /\ dstTree' = o.tree
            /\ entryFailed' = o.failed
            /\ result' = IF o.raised THEN "OSError" ELSE "returned"
    /\ UNCHANGED <<fsEnv, tmpdir, temp_src, exclude_hidden, pending, dstAtCall,
                   tmpCreated, copyFailed, classified, prev>>

\* the caller gets the outcome and may call again; the record of the call
\* that ended is kept in prev only
Finish ==
    /\ pc = "done"
    /\ pc' = "idle"
    /\ prev' = IF result = "returned"
               THEN [returned |-> TRUE, exclude |-> exclude_hidden,
                     clean |-> ~entryFailed]
               ELSE NoPrev
    /\ exclude_hidden' = FALSE
    /\ pending' = "none"
    /\ result' = "none"
    /\ dstAtCall' = [exists |-> dstExists, tree |-> dstTree]
    /\ tmpCreated' = FALSE
    /\ syncInvoked' = FALSE
    /\ entryFailed' = FALSE
    /\ copyFailed' = FALSE
    /\ classified' = NotClassified
    /\ UNCHANGED <<fsEnv, dstExists, dstTree, tmpdir, temp_src>>

Next ==
    \/ \E eh \in BOOLEAN : sync_dir(eh)
    \/ MkTemp
    \/ CopyTree
    \/ SyncStaged
    \/ TempDirExit
    \/ SyncDirect
    \/ Finish

Spec == Init /\ [][Next]_vars
SpecPlatforms == InitPlatforms /\ [][Next]_vars

\* ------------------------------------------------------------- properties
DstNow == [exists |-> dstExists, tree |-> dstTree]
DstUnchanged == DstNow = dstAtCall

\* the tree the pass synchronizes from: the source, or what the filter keeps
EffectiveSource ==
    {p \in Paths : IF exclude_hidden THEN Included(srcTree, p) ELSE Present(srcTree, p)}

\* p is an entry whose name starts with a dot, or lies below such a directory
UnderHidden(p) == \E q \in Paths : IsPrefix(q, p) /\ StartsWithDot(BaseName(q))

\* C1: a call whose source path does not exist ends with FileNotFoundError,
\* never creates a staging directory, never invokes the synchronization pass
\* and leaves the destination as it was, whatever exclude_hidden is.
C1_MissingSource ==
    srcKind = "absent" =>
        /\ pc \in {"idle", "done"}
        /\ ~tmpdir
        /\ ~tmpCreated
        /\ ~syncInvoked
        /\ DstUnchanged
        /\ pc = "done" => result = "FileNotFoundError"

C1_Witness ==
    /\ srcKind = "absent"
    /\ pc = "done"
    /\ exclude_hidden
    /\ result = "FileNotFoundError"
    /\ Present(dstTree, PathDB)

\* C2: once a call with exclude_hidden has returned or raised, the staging
\* directory it created no longer exists, on every exit path.
C2_StagingRemoved ==
    pc \in {"idle", "done"} => ~tmpdir /\ temp_src = EmptyTree

C2_Witness ==
    /\ pc = "done"
    /\ exclude_hidden
    /\ tmpCreated
    /\ syncInvoked
    /\ result = "OSError"
    /\ ~tmpdir

\* C3: after a call with exclude_hidden that returned, the destination holds
\* no entry whose name starts with a dot and nothing below such a directory.
C3_NoHiddenInDst ==
    pc = "done" /\ exclude_hidden /\ result = "returned" =>
        \A p \in Entries(dstTree) : ~UnderHidden(p)

\* C4: after a call that returned, every file that was in the destination and
\* is not in the effective source is gone from the destination.
C4_Purged ==
    pc = "done" /\ result = "returned" =>
        \A p \in FilePaths :
            Present(dstAtCall.tree, p) /\ p \notin EffectiveSource
                => ~Present(dstTree, p)

\* C5: after a call that returned and in which no entry operation failed,
\* every file of the effective source is in the destination with the
\* content of the source, also when the destination already held a file of
\* another size.
C5_ContentMatches ==
    pc = "done" /\ result = "returned" /\ ~entryFailed =>
        \A p \in FilePaths \cap EffectiveSource :
            /\ Present(dstTree, p)
            /\ dstTree[p].content = srcTree[p].content
            /\ /\ Present(dstAtCall.tree, p)
               /\ \/ Size(dstAtCall.tree[p].content) # Size(srcTree[p].content)
                  \/ dstAtCall.tree[p].mtime < srcTree[p].mtime
               => dstTree[p] = srcTree[p]

\* C6: a call that follows a returned call with the same exclude_hidden, the
\* source being unchanged, creates, updates and deletes nothing in the
\* destination.
C6_SecondRunNoMutation ==
    pc = "done" /\ prev.returned /\ prev.exclude = exclude_hidden => DstUnchanged

\* C7: a call in which an entry operation failed never ends as a plain return.
C7_FailureSurfaced ==
    pc = "done" /\ entryFailed => result # "returned"

\* C8: a call whose source path is a regular file ends with FileNotFoundError
\* in the initial validation: no staging directory is created and the
\* destination is not touched.
C8_SourceNotADirectory ==
    srcKind = "file" =>
        /\ pc \in {"idle", "done"}
        /\ ~tmpCreated
        /\ DstUnchanged
        /\ pc = "done" => result = "FileNotFoundError"

\* C9: when the filtered copy into the staging directory fails, the
\* synchronization pass is never invoked, the destination stays as it was
\* before the call and the error of the copy reaches the caller.
C9_CopyFailureNoSync ==
    copyFailed =>
        /\ ~syncInvoked
        /\ DstUnchanged
        /\ pc \in {"exiting", "done"}
        /\ pending \in {"Error", "NotADirectoryError"}
        /\ pc = "done" => result \in {"Error", "NotADirectoryError"}

C9_Witness ==
    /\ copyFailed
    /\ pc = "done"
    /\ result = "Error"
    /\ srcKind = "dir"
    /\ Present(srcTree, PathDB)
    /\ Present(dstTree, PathHC)

\* C10: the classifier always answers: an entry whose name starts with a dot
\* is hidden and its attributes are not queried, on both platforms; on the
\* attribute-based platform an entry without a leading dot whose attribute
\* query raises or returns -1 is not hidden, and a copy that succeeds holds it.
C10_ClassifierFailOpen ==
    \A p \in Paths :
        /\ classified[p].res \in {"True", "False", "unvisited"}
        /\ classified[p].res # "unvisited" =>
            /\ StartsWithDot(BaseName(p)) =>
                   classified[p].res = "True" /\ ~classified[p].queried
            /\ /\ ~StartsWithDot(BaseName(p))
               /\ osName = "nt"
               /\ attrs[p].raised \/ attrs[p].value = -1
               => /\ classified[p].res = "False"
                  /\ pc = "copied" => Present(temp_src, p)

C10_Witness ==
    /\ osName = "nt"
    /\ pc = "copied"
    /\ attrs[PathDB].raised
    /\ ~attrs[PathD].raised
    /\ attrs[PathD].value = -1
    /\ Present(temp_src, PathDB)
    /\ Present(temp_src, PathD)
    /\ classified[PathH].res = "True"

====
